---- MODULE Spec2Model ----
(***************************************************************************)
(* Adaptive quiz: the QuizInterface client (initializeQuiz,                *)
(* loadNextQuestion, generateNewQuestion, submitAnswer, nextQuestion,      *)
(* endQuiz), the edge functions generate-question, grade-answer and        *)
(* evolve-quiz, and the tables questions, quiz_sessions and user_answers.  *)
(*                                                                         *)
(* Text is a sequence of one-character strings, so that toLowerCase and    *)
(* trim are computed and not assumed.  An optional value is a sequence of  *)
(* length 0 (absent) or 1 (present).                                       *)
(***************************************************************************)
EXTENDS Integers, Sequences, FiniteSets, Bags, TLC

(* ------------------------------ bounds -------------------------------- *)

\* Answers submitted in one session.
MaxAnswers == 6

\* Events injected in one run: a failure (a failed read or write of the
\* store, a failed call of an edge function) or an evolve-quiz request that
\* changes the stored session.
MaxEvents == 1

\* generate-question requests in one run.
MaxGenerated == 2

\* Longest text graded by the grading probe.
MaxLen == 3

\* Largest total_questions handed to the adaptation probe.
MaxTotal == 12

\* Longest response text of the generation collaborator.
MaxResponse == 5

\* Topics created in one run.
MaxTopics == 2

\* Questions added to the form of TopicCreator.
MaxFormQuestions == 2

(* --------------------------- program constants ------------------------ *)

Difficulties == {"easy", "medium", "hard"}

QuestionTypes == {"mcq", "fill_blank", "short_answer", "long_answer", "true_false"}

\* The number of answers from which submitAnswer reconsiders the difficulty.
MinAnswersToAdapt == 5

\* The id generate-question returns when the insert gave no row: a random
\* base-36 string, never the id of a stored row.
RandomId == 0

\* The topic of the quiz (the topicId prop), and another topic of the store.
TopicId == "t1"

OtherTopicId == "t2"

\* generateAIQuestions: the number of initial questions it asks for.
InitialQuestions == 3

None == <<>>

Some(x) == <<x>>

(* -------------------------------- text -------------------------------- *)

Chars == {"P", "p", " "}

IsWhiteSpace(c) == c = " "

ToLowerChar(c) == IF c = "P" THEN "p" ELSE c

\* String.prototype.toLowerCase
ToLowerCase(s) == [i \in 1..Len(s) |-> ToLowerChar(s[i])]

RECURSIVE TrimStart(_)
TrimStart(s) ==
    IF s = <<>> THEN s
    ELSE IF IsWhiteSpace(Head(s)) THEN TrimStart(Tail(s))
    ELSE s

RECURSIVE TrimEnd(_)
TrimEnd(s) ==
    IF s = <<>> THEN s
    ELSE IF IsWhiteSpace(s[Len(s)]) THEN TrimEnd(SubSeq(s, 1, Len(s) - 1))
    ELSE s

\* String.prototype.trim
Trim(s) == TrimEnd(TrimStart(s))

\* !userAnswer.trim(): the guard of submitAnswer and of the Submit button.
IsBlank(userAnswer) == Trim(userAnswer) = <<>>

(* ------------------------------- grading ------------------------------ *)

GradeStoredUntrimmed(question, userAnswer) ==
    Trim(ToLowerCase(userAnswer)) = ToLowerCase(question.correct_answer)

\* const isCorrect = userAnswer.toLowerCase().trim() ===
\*                   currentQuestion.correct_answer.toLowerCase().trim()
Grade(question, userAnswer) ==
    Trim(ToLowerCase(userAnswer)) = Trim(ToLowerCase(question.correct_answer))

RequestsFeedbackOpenFormOnly(question) ==
    question.question_type \in {"short_answer", "long_answer"}

\* if (question_type !== 'mcq' && question_type !== 'true_false')
RequestsFeedback(question) ==
    question.question_type # "mcq" /\ question.question_type # "true_false"

(* ------------------------- difficulty adaptation ---------------------- *)

\* accuracy = newCorrectAnswers / newTotalQuestions is an IEEE double; for
\* counters of this size c/t > 0.7 is 10c > 7t and c/t < 0.5 is 2c < t (7/10
\* and the literal 0.7 round to the same double).
AccuracyAbove07(total, correct) == 10 * correct > 7 * total

AccuracyNotAbove07(total, correct) == 10 * correct <= 7 * total

AccuracyBelow05(total, correct) == 2 * correct < total

NextDifficultyInclusive(current, newTotal, newCorrect) ==
    IF newTotal >= MinAnswersToAdapt
    THEN IF 10 * newCorrect >= 7 * newTotal /\ current # "hard"
         THEN (IF current = "easy" THEN "medium" ELSE "hard")
         ELSE IF 2 * newCorrect <= newTotal /\ current # "easy"
         THEN (IF current = "hard" THEN "medium" ELSE "easy")
         ELSE current
    ELSE current

NextDifficultyUnsaturated(current, newTotal, newCorrect) ==
    IF newTotal >= MinAnswersToAdapt
    THEN IF AccuracyAbove07(newTotal, newCorrect)
         THEN (IF current = "easy" THEN "medium"
               ELSE IF current = "medium" THEN "hard" ELSE "expert")
         ELSE IF AccuracyBelow05(newTotal, newCorrect)
         THEN (IF current = "hard" THEN "medium"
               ELSE IF current = "medium" THEN "easy" ELSE "trivial")
         ELSE current
    ELSE current

\* The adaptation step of submitAnswer: the difficulty it arrives at from the
\* difficulty of the session it holds and the counters it has just computed.
NextDifficulty(current, newTotal, newCorrect) ==
    IF newTotal >= MinAnswersToAdapt
    THEN IF AccuracyAbove07(newTotal, newCorrect) /\ current # "hard"
         THEN (IF current = "easy" THEN "medium" ELSE "hard")
         ELSE IF AccuracyBelow05(newTotal, newCorrect) /\ current # "easy"
         THEN (IF current = "hard" THEN "medium" ELSE "easy")
         ELSE current
    ELSE current

(* -------------------------------- state -------------------------------- *)

VARIABLES
    questions,        \* table questions: the stored rows
    dbSession,        \* table quiz_sessions: the row of this quiz, once inserted
    answers,          \* table user_answers: the bag of the rows of this session
    phase,            \* QuizInterface: "loading" (isLoading), "ready", "closed" (unmounted)
    session,          \* useState<QuizSession | null>
    currentQuestion,  \* useState<Question | null>
    showFeedback,     \* useState(false)
    toast,            \* the description of the last destructive toast, "" for none
    pc,               \* where the running submitAnswer stands; "idle": none runs
    submission,       \* what the last submitAnswer holds in its closure
    lastLoad,         \* what the last loadNextQuestion asked for and did
    submitted,        \* answers submitted so far
    faults,           \* failures injected so far
    generated,        \* generate-question requests so far
    evolved,          \* evolve-quiz requests so far
    probe,            \* the input and the result of a pure function applied on its own
    profile,          \* a profiles row exists for the signed-in user
    topics,           \* table topics: the ids of the stored rows
    creator,          \* TopicCreator: its form and what its last createTopic did
    adapted           \* where the adaptation steps of the last two answers went

dbVars == <<questions, dbSession, answers>>

clientVars == <<phase, session, currentQuestion, showFeedback, toast, pc, submission>>

countVars == <<submitted, faults, generated, evolved>>

creatorVars == <<profile, topics, creator>>

vars == <<questions, dbSession, answers, phase, session, currentQuestion,
          showFeedback, toast, pc, submission, lastLoad, submitted, faults,
          generated, evolved, probe, profile, topics, creator, adapted>>

\* The stored answer " p ": the answer "P" matches it once both are
\* lower-cased and trimmed, and differs from it as typed.
StoredAnswer == <<" ", "p", " ">>

\* What the user may have typed when pressing Submit.
UserAnswers == {<<"P">>, <<"p", "p">>, <<" ">>}

\* The questions stored before the quiz starts: topic t1 holds a medium and a
\* hard question and no easy one; the easy question belongs to another topic.
SeedQuestions ==
    { [id |-> 1, topic_id |-> TopicId, difficulty |-> "medium",
       question_type |-> "fill_blank", correct_answer |-> StoredAnswer],
      [id |-> 2, topic_id |-> TopicId, difficulty |-> "hard",
       question_type |-> "short_answer", correct_answer |-> StoredAnswer],
      [id |-> 3, topic_id |-> OtherTopicId, difficulty |-> "easy",
       question_type |-> "long_answer", correct_answer |-> StoredAnswer] }

\* The questionData the generation collaborator may answer with: it is asked
\* for a difficulty and a type and is free to return others.
LLMQuestions ==
    { [difficulty |-> "easy", question_type |-> "mcq", correct_answer |-> StoredAnswer],
      [difficulty |-> "medium", question_type |-> "true_false",
       correct_answer |-> StoredAnswer],
      [difficulty |-> "hard", question_type |-> "long_answer",
       correct_answer |-> StoredAnswer] }

\* TopicCreator as it mounts: useState('') for the title, useState([]) for
\* the questions of the form; no createTopic has run.
\* ran: the variants of createTopic that have run; requests, failed, topic:
\* the generate-question requests sent, how many of the last run failed, and
\* the topic the last run inserted.
NewCreator ==
    [topicTitle |-> "", questions |-> 0, ran |-> {}, requests |-> 0,
     failed |-> 0, topic |-> None]

MainInit ==
    /\ questions = SeedQuestions
    /\ topics = {TopicId, OtherTopicId}
    /\ creator = NewCreator
    /\ adapted = <<"same", "same">>
    /\ dbSession = None
    /\ answers = EmptyBag
    /\ phase = "loading"
    /\ session = None
    /\ currentQuestion = None
    /\ showFeedback = FALSE
    /\ toast = ""
    /\ pc = "idle"
    /\ submission = None
    /\ lastLoad = None
    /\ submitted = 0
    /\ faults = 0
    /\ generated = 0
    /\ evolved = 0

Init == MainInit /\ profile \in BOOLEAN /\ probe = None

\* n more events fit the run.
CanInject(n) == faults + evolved + n <= MaxEvents

(* -------------------------- question provider ------------------------- *)

\* .from('questions').select('*').eq('topic_id', topicId).eq('difficulty', difficulty)
Matching(difficulty) ==
    {q \in questions : q.topic_id = TopicId /\ q.difficulty = difficulty}

ClientQuestion(q) ==
    [id |-> q.id, difficulty |-> q.difficulty,
     question_type |-> q.question_type, correct_answer |-> q.correct_answer]

\* The greatest id of the stored questions.
GreatestId ==
    CHOOSE id \in {q.id : q \in questions} : \A q \in questions : q.id <= id

\* gen_random_uuid(): an id no stored row has.
NewQuestionId == GreatestId + 1

\* The row generate-question inserts for the questionData qd.
GeneratedRow(requested, qd) ==
    [id |-> NewQuestionId, topic_id |-> TopicId, difficulty |-> qd.difficulty,
     question_type |-> qd.question_type, correct_answer |-> qd.correct_answer]

LoadRecord(requested, matched, fetchFailed, generation, presented, saved) ==
    Some([requested |-> requested, matched |-> matched, fetchFailed |-> fetchFailed,
          generation |-> generation, presented |-> presented, saved |-> saved])

\* loadNextQuestion, the fetch returned rows: .limit(1) without an order
\* presents any one of the matching rows.
LoadStored(difficulty) ==
    /\ Matching(difficulty) # {}
    /\ \E q \in Matching(difficulty) :
         /\ currentQuestion' = Some(ClientQuestion(q))
         /\ lastLoad' = LoadRecord(difficulty, TRUE, FALSE, FALSE,
                                   Some(ClientQuestion(q)), None)
    /\ UNCHANGED <<questions, toast, faults, generated>>

\* generateNewQuestion, generate-question answered with an error (the
\* collaborator failed or its text held no JSON): the toast, and the question
\* on screen stays.
GenerateFails(difficulty, fetchFailed) ==
    LET nf == (IF fetchFailed THEN 1 ELSE 0) + 1 IN
    /\ generated < MaxGenerated
    /\ CanInject(nf)
    /\ generated' = generated + 1
    /\ faults' = faults + nf
    /\ toast' = "Failed to load question"
    /\ lastLoad' = LoadRecord(difficulty, Matching(difficulty) # {}, fetchFailed,
                              TRUE, None, None)
    /\ UNCHANGED <<questions, currentQuestion>>

\* generateNewQuestion, generate-question answered with a question: the
\* insert of questionData either gave the saved row and its id, or failed, is
\* logged, and the answer carries a random id.
GenerateSucceeds(difficulty, fetchFailed) ==
    /\ generated < MaxGenerated
    /\ \E qd \in LLMQuestions, saveOk \in BOOLEAN :
         LET nf == (IF fetchFailed THEN 1 ELSE 0) + (IF saveOk THEN 0 ELSE 1)
             row == GeneratedRow(difficulty, qd)
             shown == [ClientQuestion(row) EXCEPT
                          !.id = IF saveOk THEN row.id ELSE RandomId]
         IN  /\ CanInject(nf)
             /\ faults' = faults + nf
             /\ questions' = IF saveOk THEN questions \cup {row} ELSE questions
             /\ currentQuestion' = Some(shown)
             /\ lastLoad' = LoadRecord(difficulty, Matching(difficulty) # {},
                                       fetchFailed, TRUE, Some(shown),
                                       IF saveOk THEN Some(row) ELSE None)
    /\ generated' = generated + 1
    /\ UNCHANGED toast

\* loadNextQuestion(difficulty): a stored question if the fetch returns one,
\* a generated one if it returns none, and ("Fallback to generating a new
\* question") a generated one if the fetch fails.
LoadNextQuestion(difficulty) ==
    \/ LoadStored(difficulty)
    \/ /\ Matching(difficulty) = {}
       /\ (GenerateSucceeds(difficulty, FALSE) \/ GenerateFails(difficulty, FALSE))
    \/ GenerateSucceeds(difficulty, TRUE)
    \/ GenerateFails(difficulty, TRUE)

(* ------------------------------ the client ---------------------------- *)

ProfileNeverMissing(found) == FALSE

\* const profile = await getUserProfile(); if (!profile) throw ...
ProfileMissing(found) == ~found

\* The row initializeQuiz inserts: current_difficulty 'medium', the columns'
\* defaults for the rest.
NewSessionRow ==
    [current_difficulty |-> "medium", total_questions |-> 0, correct_answers |-> 0,
     is_active |-> TRUE, focus_area |-> "none"]

\* What the client keeps of a quiz_sessions row.
ClientSession(row) ==
    [current_difficulty |-> row.current_difficulty,
     total_questions |-> row.total_questions,
     correct_answers |-> row.correct_answers]

\* initializeQuiz: no profile, or the insert of the session failed: the toast,
\* and no session.
InitializeQuizAborts ==
    /\ phase = "loading"
    /\ \/ /\ ProfileMissing(profile)
          /\ toast' = "Profile not found"
          /\ UNCHANGED faults
       \/ /\ ~ProfileMissing(profile)
          /\ CanInject(1)
          /\ faults' = faults + 1
          /\ toast' = "insert failed"
    /\ phase' = "ready"
    /\ UNCHANGED <<dbVars, session, currentQuestion, showFeedback, pc, submission,
                   lastLoad, submitted, generated, evolved, probe, creatorVars, adapted>>

\* initializeQuiz: the session is inserted and kept, and the first question
\* is loaded at the difficulty of the inserted row.
InitializeQuiz ==
    /\ phase = "loading"
    /\ ~ProfileMissing(profile)
    /\ dbSession' = Some(NewSessionRow)
    /\ session' = Some(ClientSession(NewSessionRow))
    /\ LoadNextQuestion(NewSessionRow.current_difficulty)
    /\ phase' = "ready"
    /\ UNCHANGED <<answers, showFeedback, pc, submission, submitted, evolved, probe, creatorVars, adapted>>

\* The question card is on screen: the Submit and End Quiz buttons.
QuestionCard ==
    phase = "ready" /\ currentQuestion # None /\ session # None /\ ~showFeedback

\* The feedback card is on screen: the Next Question and Finish Quiz buttons.
FeedbackCard ==
    phase = "ready" /\ currentQuestion # None /\ session # None /\ showFeedback

\* submitAnswer up to its first await: the guard, isCorrect, and whether
\* grade-answer is asked for feedback.  The closure holds the session and the
\* question of the render the button was pressed in.
SubmitAnswer ==
    /\ QuestionCard
    /\ pc = "idle"
    /\ submitted < MaxAnswers
    /\ \E userAnswer \in UserAnswers :
         /\ ~IsBlank(userAnswer)
         /\ submission' = Some(
               [session |-> session[1],
                question |-> currentQuestion[1],
                userAnswer |-> userAnswer,
                isCorrect |-> Grade(currentQuestion[1], userAnswer),
                requested |-> RequestsFeedback(currentQuestion[1]),
                feedback |-> "",
                newTotalQuestions |-> session[1].total_questions,
                newCorrectAnswers |-> session[1].correct_answers,
                newDifficulty |-> session[1].current_difficulty])
    /\ pc' = IF RequestsFeedback(currentQuestion[1]) THEN "grading" ELSE "insert"
    /\ submitted' = submitted + 1
    /\ UNCHANGED <<dbVars, phase, session, currentQuestion, showFeedback, toast,
                   lastLoad, faults, generated, evolved, probe, creatorVars, adapted>>

\* grade-answer answered: with the collaborator's text, or with an error
\* (status 500, no data), which leaves the feedback empty.
GradeAnswerReturns ==
    /\ pc = "grading"
    /\ \/ /\ submission' = Some([submission[1] EXCEPT !.feedback = "feedback"])
          /\ UNCHANGED faults
       \/ /\ CanInject(1)
          /\ faults' = faults + 1
          /\ UNCHANGED submission
    /\ pc' = "insert"
    /\ UNCHANGED <<dbVars, phase, session, currentQuestion, showFeedback, toast,
                   lastLoad, submitted, generated, evolved, probe, creatorVars, adapted>>

AnswerRowGradedByFeedback(sub) ==
    [question_id |-> sub.question.id, user_answer |-> sub.userAnswer,
     is_correct |-> IF sub.requested THEN sub.feedback # "" ELSE sub.isCorrect,
     ai_feedback |-> sub.feedback]

\* The row submitAnswer inserts into user_answers.
AnswerRow(sub) ==
    [question_id |-> sub.question.id, user_answer |-> sub.userAnswer,
     is_correct |-> sub.isCorrect, ai_feedback |-> sub.feedback]

\* user_answers.question_id REFERENCES questions(id), session_id REFERENCES
\* quiz_sessions(id).
InsertAccepted(row) ==
    /\ dbSession # None
    /\ \E q \in questions : q.id = row.question_id

Upserted(table, row) ==
    [r \in {x \in BagToSet(table) : x.question_id # row.question_id} |-> table[r]]
        (+) SetToBag({row})

\* .from('user_answers').insert(row): one more row.
Inserted(table, row) == table (+) SetToBag({row})

\* The commands the row-level policies of user_answers allow a signed-in
\* user: "Users can view their own answers", "Users can create their own
\* answers".
UserAnswersPolicies == {"SELECT", "INSERT"}

\* "Save answer": the insert, whose result submitAnswer does not look at.
InsertAnswer ==
    /\ pc = "insert"
    /\ \/ /\ InsertAccepted(AnswerRow(submission[1]))
          /\ answers' = Inserted(answers, AnswerRow(submission[1]))
          /\ UNCHANGED faults
       \/ /\ ~InsertAccepted(AnswerRow(submission[1]))
          /\ UNCHANGED <<answers, faults>>
       \/ /\ InsertAccepted(AnswerRow(submission[1]))
          /\ CanInject(1)
          /\ faults' = faults + 1
          /\ UNCHANGED answers
    /\ pc' = "update"
    /\ UNCHANGED <<questions, dbSession, phase, session, currentQuestion,
                   showFeedback, toast, submission, lastLoad, submitted,
                   generated, evolved, probe, creatorVars, adapted>>

NewTotalQuestionsIfGraded(sub) ==
    sub.session.total_questions + (IF sub.requested /\ sub.feedback = "" THEN 0 ELSE 1)

\* const newTotalQuestions = session.total_questions + 1
NewTotalQuestions(sub) == sub.session.total_questions + 1

NewCorrectAnswersTwice(sub) ==
    sub.session.correct_answers + (IF sub.isCorrect THEN 2 ELSE 0)

\* const newCorrectAnswers = session.correct_answers + (isCorrect ? 1 : 0)
NewCorrectAnswers(sub) ==
    sub.session.correct_answers + (IF sub.isCorrect THEN 1 ELSE 0)

\* A state setter of the component: nothing once it is unmounted.
SetState(current, value) == IF phase = "closed" THEN current ELSE value

\* The closure of submitAnswer: kept while it runs and, once it has finished,
\* as long as the feedback card shows its outcome (lastAnswerCorrect,
\* aiFeedback).
Kept(finished, sub) ==
    IF finished /\ phase = "closed" THEN None ELSE Some(sub)

\* Where an adaptation step went from the difficulty it started at.
Direction(from, to) ==
    IF to = from THEN "same"
    ELSE IF from = "easy" \/ to = "hard" THEN "up"
    ELSE "down"

\* "Update session": the update of the counters (its result unread), the
\* first setSession, the feedback card, and the adaptation step up to its
\* await.
UpdateSession ==
    /\ pc = "update"
    /\ LET sub == submission[1]
           total == NewTotalQuestions(sub)
           correct == NewCorrectAnswers(sub)
           newDifficulty == NextDifficulty(sub.session.current_difficulty, total, correct)
       IN  /\ \/ /\ dbSession # None
                 /\ dbSession' = Some([dbSession[1] EXCEPT
                                          !.total_questions = total,
                                          !.correct_answers = correct])
                 /\ UNCHANGED faults
              \/ /\ CanInject(1)
                 /\ faults' = faults + 1
                 /\ UNCHANGED dbSession
           /\ session' = SetState(session,
                            Some([sub.session EXCEPT !.total_questions = total,
                                                     !.correct_answers = correct]))
           /\ showFeedback' = SetState(showFeedback, TRUE)
           /\ submission' = Kept(newDifficulty = sub.session.current_difficulty,
                                 [sub EXCEPT !.newTotalQuestions = total,
                                             !.newCorrectAnswers = correct,
                                             !.newDifficulty = newDifficulty])
           /\ pc' = IF newDifficulty # sub.session.current_difficulty
                    THEN "adapt" ELSE "idle"
           /\ adapted' = <<adapted[2],
                           Direction(sub.session.current_difficulty, newDifficulty)>>
    /\ UNCHANGED <<questions, answers, phase, currentQuestion, toast, lastLoad,
                   submitted, generated, evolved, probe, creatorVars>>

\* The session the second setSession sets: the session of the closure with the
\* new difficulty.
AdaptedSession(sub) ==
    [sub.session EXCEPT !.current_difficulty = sub.newDifficulty]

\* The difficulty changed: the update of current_difficulty (its result
\* unread) and the second setSession.
UpdateDifficulty ==
    /\ pc = "adapt"
    /\ \/ /\ dbSession # None
          /\ dbSession' = Some([dbSession[1] EXCEPT
                                   !.current_difficulty = submission[1].newDifficulty])
          /\ UNCHANGED faults
       \/ /\ CanInject(1)
          /\ faults' = faults + 1
          /\ UNCHANGED dbSession
    /\ session' = SetState(session, Some(AdaptedSession(submission[1])))
    /\ pc' = "idle"
    /\ submission' = Kept(TRUE, submission[1])
    /\ UNCHANGED <<questions, answers, phase, currentQuestion, showFeedback, toast,
                   lastLoad, submitted, generated, evolved, probe, creatorVars, adapted>>

\* nextQuestion: back to the question card, and loadNextQuestion at the
\* difficulty of the session of this render.
NextQuestion ==
    /\ FeedbackCard
    /\ showFeedback' = FALSE
    /\ LoadNextQuestion(session[1].current_difficulty)
    /\ submission' = IF pc = "idle" THEN None ELSE submission
    /\ UNCHANGED <<dbSession, answers, phase, session, pc, submitted, evolved, probe, creatorVars, adapted>>

\* onQuizComplete: the Dashboard unmounts the component and its state is
\* gone; a submitAnswer that is running keeps its closure and goes on.
Unmount ==
    /\ phase' = "closed"
    /\ session' = None
    /\ currentQuestion' = None
    /\ showFeedback' = FALSE
    /\ lastLoad' = None
    /\ submission' = IF pc = "idle" THEN None ELSE submission

\* endQuiz: the update that ends the session (its result unread), then
\* onQuizComplete, which unmounts the component.
EndQuiz ==
    /\ phase = "ready"
    /\ currentQuestion # None
    /\ session # None
    /\ \/ /\ dbSession' = Some([dbSession[1] EXCEPT !.is_active = FALSE])
          /\ UNCHANGED faults
       \/ /\ CanInject(1)
          /\ faults' = faults + 1
          /\ UNCHANGED dbSession
    /\ Unmount
    /\ UNCHANGED <<questions, answers, toast, pc, submitted, generated, evolved,
                   probe, creatorVars, adapted>>

\* "No questions available for this topic.": Back to Topics.
BackToTopics ==
    /\ phase = "ready"
    /\ (currentQuestion = None \/ session = None)
    /\ Unmount
    /\ UNCHANGED <<dbVars, toast, pc, countVars, probe, creatorVars, adapted>>

(* --------------------------- accuracy, displayed ----------------------- *)

\* Math.round((correct / total) * 100): the nearest integer, a half upwards.
RoundedPercent(correct, total) == (200 * correct + total) \div (2 * total)

\* const accuracy = session.total_questions > 0 ? Math.round(...) : 0
AccuracyPercent(s) ==
    IF s.total_questions > 0
    THEN RoundedPercent(s.correct_answers, s.total_questions)
    ELSE 0

\* userSessions.reduce((sum, session) => sum + session[field], 0)
RECURSIVE SumOf(_, _)
SumOf(sessions, field) ==
    IF sessions = <<>> THEN 0
    ELSE Head(sessions)[field] + SumOf(Tail(sessions), field)

\* getTotalStats of the Dashboard on the sessions it has loaded.
GetTotalStats(userSessions) ==
    LET totalQuestions == SumOf(userSessions, "total_questions")
        totalCorrect == SumOf(userSessions, "correct_answers")
    IN  [totalQuestions |-> totalQuestions, totalCorrect |-> totalCorrect,
         accuracy |-> IF totalQuestions > 0
                      THEN RoundedPercent(totalCorrect, totalQuestions) ELSE 0,
         totalSessions |-> Len(userSessions)]

(* ------------------------------ evolve-quiz ---------------------------- *)

\* The evolutionDecision the collaborator may answer with: new_difficulty and
\* focus_area are a value or null ("none"); "extreme" is a new_difficulty that
\* is no difficulty_level.
EvolutionDecisions ==
    [new_difficulty : Difficulties \cup {"none", "extreme"},
     focus_area : {"none", "loops"}]

\* The row after .update(updates): updates holds current_difficulty if
\* new_difficulty is set and focus_area if focus_area is set; the column type
\* difficulty_level rejects an update to any other value.
ApplyEvolution(row, decision) ==
    IF decision.new_difficulty \notin Difficulties \cup {"none"}
    THEN row
    ELSE [row EXCEPT
            !.current_difficulty = IF decision.new_difficulty # "none"
                                   THEN decision.new_difficulty ELSE @,
            !.focus_area = IF decision.focus_area # "none"
                           THEN decision.focus_area ELSE @]

\* evolve-quiz for the session of this quiz: the decision is applied to the
\* stored row, and the client is not told.  evolved counts the requests that
\* changed the row.
EvolveQuiz ==
    /\ CanInject(1)
    /\ dbSession # None
    /\ \E decision \in EvolutionDecisions :
         /\ dbSession' = Some(ApplyEvolution(dbSession[1], decision))
         /\ evolved' = IF dbSession' = dbSession THEN evolved ELSE evolved + 1
    /\ UNCHANGED <<questions, answers, clientVars, lastLoad, submitted, faults,
                   generated, probe, creatorVars, adapted>>

\* evolve-quiz answers with an error (no such session, the collaborator
\* failed, its text held no JSON): status 500 and nothing written.
EvolveQuizFails ==
    /\ CanInject(1)
    /\ UNCHANGED vars

(* --------------------------- the specification ------------------------- *)

Next ==
    \/ InitializeQuizAborts
    \/ InitializeQuiz
    \/ SubmitAnswer
    \/ GradeAnswerReturns
    \/ InsertAnswer
    \/ UpdateSession
    \/ UpdateDifficulty
    \/ NextQuestion
    \/ EndQuiz
    \/ BackToTopics
    \/ EvolveQuiz
    \/ EvolveQuizFails

Spec == Init /\ [][Next]_vars

(* ------------------------- pure functions, probed ---------------------- *)

mainVars == <<questions, dbSession, answers, phase, session, currentQuestion,
              showFeedback, toast, pc, submission, lastLoad, submitted, faults,
              generated, evolved, profile, topics, creator, adapted>>

\* Every text of at most MaxLen characters.
Texts == UNION {[1..n -> Chars] : n \in 0..MaxLen}

\* The adaptation step on every difficulty and every pair of counters.
InitAdapt ==
    /\ MainInit
    /\ profile = TRUE
    /\ \E current \in Difficulties, total \in 0..MaxTotal :
         \E correct \in 0..total :
           probe = Some([fn |-> "adapt", current |-> current, total |-> total,
                         correct |-> correct, done |-> FALSE, result |-> current])

ProbeAdapt ==
    /\ probe # None
    /\ probe[1].fn = "adapt"
    /\ ~probe[1].done
    /\ probe' = Some([probe[1] EXCEPT
                        !.done = TRUE,
                        !.result = NextDifficulty(probe[1].current, probe[1].total,
                                                  probe[1].correct)])
    /\ UNCHANGED mainVars

SpecAdapt == InitAdapt /\ [][ProbeAdapt]_vars

\* The grading of submitAnswer on every question type, stored answer and
\* typed answer.
InitGrade ==
    /\ MainInit
    /\ profile = TRUE
    /\ \E type \in QuestionTypes, correct \in Texts, userAnswer \in Texts :
         probe = Some([fn |-> "grade",
                       question |-> [question_type |-> type, correct_answer |-> correct],
                       userAnswer |-> userAnswer, done |-> FALSE,
                       recorded |-> FALSE, is_correct |-> FALSE])

ProbeGrade ==
    /\ probe # None
    /\ probe[1].fn = "grade"
    /\ ~probe[1].done
    /\ probe' = Some([probe[1] EXCEPT
                        !.done = TRUE,
                        !.recorded = ~IsBlank(probe[1].userAnswer),
                        !.is_correct = Grade(probe[1].question, probe[1].userAnswer)])
    /\ UNCHANGED mainVars

SpecGrade == InitGrade /\ [][ProbeGrade]_vars

(* ------------------------------- claims -------------------------------- *)

\* The rows of user_answers, and how many of them there are.
AnswerRows == BagToSet(answers)

AnswerCount == BagCardinality(answers)

CorrectAnswerCount ==
    BagCardinality([row \in {r \in AnswerRows : r.is_correct} |-> answers[row]])

\* The submitAnswer of sub has computed its counters and its difficulty.
Evaluated(sub) == sub.newTotalQuestions = sub.session.total_questions + 1

\* No submitAnswer is running.
Quiescent == pc = "idle"

\* C1: once a submitAnswer has finished, the stored total_questions is the
\* number of answer records of the session and the stored correct_answers the
\* number of those with is_correct.  Stated for the runs in which no call
\* fails and evolve-quiz is not used.
C1_CountersMatchAnswers ==
    (dbSession # None /\ Quiescent /\ faults = 0 /\ evolved = 0)
        => /\ dbSession[1].total_questions = AnswerCount
           /\ dbSession[1].correct_answers = CorrectAnswerCount

\* C2: while fewer than 5 answers are recorded, the stored session and the
\* session the client holds have the difficulty the session was created with.
C2_NoChangeBeforeFiveAnswers ==
    (dbSession # None /\ AnswerCount < MinAnswersToAdapt)
        => /\ dbSession[1].current_difficulty = NewSessionRow.current_difficulty
           /\ session # None
                => session[1].current_difficulty = NewSessionRow.current_difficulty

\* The tiers in their order.
Tier(difficulty) ==
    CASE difficulty = "easy" -> 1
      [] difficulty = "medium" -> 2
      [] difficulty = "hard" -> 3
      [] OTHER -> 0

TierNamed(n) == CHOOSE d \in Difficulties : Tier(d) = n

TierDistance(a, b) ==
    IF Tier(a) >= Tier(b) THEN Tier(a) - Tier(b) ELSE Tier(b) - Tier(a)

\* The rule of the specification's Difficulty Adapter for total >= 5.
ReferenceRule(current, total, correct) ==
    IF 100 * correct > 70 * total /\ current # "hard"
    THEN TierNamed(Tier(current) + 1)
    ELSE IF 100 * correct < 50 * total /\ current # "easy"
    THEN TierNamed(Tier(current) - 1)
    ELSE current

AdaptProbed == probe # None /\ probe[1].fn = "adapt" /\ probe[1].done

\* C3: for every difficulty and every pair (total, correct) with total >= 5,
\* the adaptation step arrives at the difficulty of the reference rule; from
\* (medium, 5, 4) at hard and from (medium, 5, 1) at easy.
C3_AdaptationFollowsRule ==
    (AdaptProbed /\ probe[1].total >= 5)
        => /\ probe[1].result
                = ReferenceRule(probe[1].current, probe[1].total, probe[1].correct)
           /\ (probe[1].current = "medium" /\ probe[1].total = 5
                  /\ probe[1].correct = 4) => probe[1].result = "hard"
           /\ (probe[1].current = "medium" /\ probe[1].total = 5
                  /\ probe[1].correct = 1) => probe[1].result = "easy"

\* C3, reached: accuracy exactly 0.7 (7 of 10) leaves medium unchanged.
C3_Witness ==
    /\ AdaptProbed
    /\ probe[1].current = "medium" /\ probe[1].total = 10 /\ probe[1].correct = 7
    /\ probe[1].result = "medium"

\* The adaptation step of the submitAnswer of sub saturates and moves the
\* difficulty it started from by at most one tier.
SaturatesAt(sub) ==
    /\ sub.newDifficulty \in Difficulties
    /\ TierDistance(sub.session.current_difficulty, sub.newDifficulty) <= 1
    /\ (sub.session.current_difficulty = "hard"
           /\ 100 * sub.newCorrectAnswers > 70 * sub.newTotalQuestions)
          => sub.newDifficulty = "hard"
    /\ (sub.session.current_difficulty = "easy"
           /\ 100 * sub.newCorrectAnswers < 50 * sub.newTotalQuestions)
          => sub.newDifficulty = "easy"

DifficultiesAreTiers ==
    /\ session # None => session[1].current_difficulty \in Difficulties
    /\ dbSession # None => dbSession[1].current_difficulty \in Difficulties
    /\ (submission # None /\ Evaluated(submission[1])) => SaturatesAt(submission[1])

\* The session the client holds changes its difficulty only in the last step
\* of a submitAnswer, and then by one tier.
ClientMovesOneTier ==
    (session # None /\ session' # None
        /\ session'[1].current_difficulty # session[1].current_difficulty)
        => /\ pc = "adapt" /\ pc' = "idle"
           /\ TierDistance(session[1].current_difficulty,
                           session'[1].current_difficulty) = 1

\* In a run without failures and without evolve-quiz, the same of the stored
\* session.
StoredMovesOneTier ==
    (dbSession # None /\ faults' = 0 /\ evolved' = 0
        /\ dbSession'[1].current_difficulty # dbSession[1].current_difficulty)
        => /\ pc = "adapt" /\ pc' = "idle"
           /\ TierDistance(dbSession[1].current_difficulty,
                           dbSession'[1].current_difficulty) = 1

\* C4: the tiers saturate (hard with accuracy > 0.7 stays hard, easy with
\* accuracy < 0.5 stays easy), the difficulty of a session is always one of
\* easy, medium, hard, and one answered question moves it by at most one tier.
C4_DifficultySaturates ==
    /\ []DifficultiesAreTiers
    /\ [][ClientMovesOneTier /\ StoredMovesOneTier]_vars

\* C4, reached: a submitAnswer on a hard session with accuracy above 0.7 has
\* finished, and the session is hard.
C4_Witness ==
    /\ submission # None /\ Evaluated(submission[1]) /\ Quiescent
    /\ submission[1].session.current_difficulty = "hard"
    /\ submission[1].newTotalQuestions >= MinAnswersToAdapt
    /\ 100 * submission[1].newCorrectAnswers > 70 * submission[1].newTotalQuestions
    /\ session # None /\ session[1].current_difficulty = "hard"
    /\ dbSession[1].current_difficulty = "hard"

\* Trimming and lower-casing, said without recursion: the text between the
\* first and the last character that is no white space, each "P" as "p".
Least(S) == CHOOSE x \in S : \A y \in S : x <= y

Greatest(S) == CHOOSE x \in S : \A y \in S : x >= y

Stripped(s) ==
    LET kept == {i \in 1..Len(s) : s[i] # " "}
    IN  IF kept = {} THEN <<>> ELSE SubSeq(s, Least(kept), Greatest(kept))

Lowered(s) == [i \in 1..Len(s) |-> IF s[i] = "P" THEN "p" ELSE s[i]]

EqualNormalised(a, b) == Lowered(Stripped(a)) = Lowered(Stripped(b))

GradeProbed == probe # None /\ probe[1].fn = "grade" /\ probe[1].done

\* C5: for every question type, the is_correct flag submitAnswer records is
\* true exactly when the typed answer and the stored answer are equal once
\* trimmed and lower-cased; "P" against the stored " p " is correct.
C5_GradeIsNormalisedEquality ==
    (GradeProbed /\ probe[1].recorded)
        => /\ probe[1].is_correct
                <=> EqualNormalised(probe[1].userAnswer,
                                    probe[1].question.correct_answer)
           /\ (probe[1].userAnswer = <<"P">>
                  /\ probe[1].question.correct_answer = <<" ", "p", " ">>)
                => probe[1].is_correct

\* C5, reached: an mcq question with the stored answer " p ", the typed
\* answer "P", recorded as correct.
C5_Witness ==
    /\ GradeProbed /\ probe[1].recorded
    /\ probe[1].question.question_type = "mcq"
    /\ probe[1].userAnswer = <<"P">>
    /\ probe[1].question.correct_answer = <<" ", "p", " ">>
    /\ probe[1].is_correct

\* C6: the feedback never alters correctness: two answer records of the same
\* question with the same typed answer carry the same is_correct whatever
\* feedback each received (a text, or none because the call failed), and the
\* increment of correct_answers is 1 exactly when the typed answer matches.
C6_FeedbackDoesNotGrade ==
    /\ \A a, b \in AnswerRows :
         (a.question_id = b.question_id /\ a.user_answer = b.user_answer)
            => a.is_correct = b.is_correct
    /\ (submission # None /\ Evaluated(submission[1]))
          => submission[1].newCorrectAnswers - submission[1].session.correct_answers
                = (IF EqualNormalised(submission[1].userAnswer,
                                      submission[1].question.correct_answer)
                   THEN 1 ELSE 0)

\* C6, reached: two records of one question with the same typed answer, one
\* with a feedback text and one without, and the second submitAnswer has
\* computed its counters.
C6_Witness ==
    /\ \E a, b \in AnswerRows :
         /\ a.question_id = b.question_id /\ a.user_answer = b.user_answer
         /\ a.ai_feedback # "" /\ b.ai_feedback = ""
    /\ submission # None /\ Evaluated(submission[1]) /\ submission[1].requested
    /\ submission[1].feedback = ""

\* The type of the stored question an answer record refers to.
QuestionType(id) == (CHOOSE q \in questions : q.id = id).question_type

\* Feedback is asked for exactly the questions of the given types, and the
\* records of the other questions carry no feedback.
FeedbackExactlyFor(types) ==
    /\ submission # None
          => /\ submission[1].requested
                   <=> submission[1].question.question_type \in types
             /\ ~submission[1].requested => submission[1].feedback = ""
    /\ \A row \in AnswerRows :
         QuestionType(row.question_id) \notin types => row.ai_feedback = ""

\* C7 as claimed: submitAnswer asks grade-answer for feedback exactly when the
\* question is short_answer or long_answer; for mcq, true_false and
\* fill_blank none is asked and the recorded feedback is empty.
C7_FeedbackOnlyForOpenForm ==
    FeedbackExactlyFor({"short_answer", "long_answer"})

\* C7 as amended: submitAnswer asks grade-answer for feedback exactly when the
\* question is neither mcq nor true_false (fill_blank, short_answer,
\* long_answer); for mcq and true_false none is asked and the recorded
\* feedback is empty.
C7_FeedbackExceptChoiceTypes ==
    FeedbackExactlyFor({"fill_blank", "short_answer", "long_answer"})

\* C7, reached: a fill_blank answer is recorded with feedback, and the
\* submitAnswer of a true_false question runs without having asked.
C7_Witness ==
    /\ \E row \in AnswerRows :
         QuestionType(row.question_id) = "fill_blank" /\ row.ai_feedback # ""
    /\ submission # None
    /\ submission[1].question.question_type = "true_false"
    /\ ~submission[1].requested
    /\ pc = "update"

\* C8: loadNextQuestion asks for a generated question only if no stored
\* question matches (topic, difficulty); when one matches, a matching stored
\* question is presented and nothing is generated.
C8_ReuseBeforeGeneration ==
    lastLoad # None
        => /\ lastLoad[1].generation => ~lastLoad[1].matched
           /\ lastLoad[1].matched
                => /\ ~lastLoad[1].generation
                   /\ lastLoad[1].presented # None
                   /\ \E q \in questions :
                        /\ ClientQuestion(q) = lastLoad[1].presented[1]
                        /\ q.topic_id = TopicId
                        /\ q.difficulty = lastLoad[1].requested

\* C9: no question is answered twice in a session, and the question on the
\* question card, waiting for its answer, has no answer record yet.
C9_NoQuestionAnsweredTwice ==
    /\ \A a, b \in AnswerRows : a.question_id = b.question_id => a = b
    /\ \A a \in AnswerRows : answers[a] = 1
    /\ (QuestionCard /\ Quiescent)
          => \A a \in AnswerRows : a.question_id # currentQuestion[1].id

\* C10: the question loadNextQuestion presents has the difficulty it was
\* called with, and a generated question is stored under that difficulty.
C10_PresentedAtRequestedDifficulty ==
    lastLoad # None
        => /\ lastLoad[1].presented # None
                => lastLoad[1].presented[1].difficulty = lastLoad[1].requested
           /\ lastLoad[1].saved # None
                => lastLoad[1].saved[1].difficulty = lastLoad[1].requested

(* ------------- generate-question: the collaborator's response ---------- *)

\* The response text, character by character: the braces, "a" for a run of
\* text that is well-formed JSON where it stands inside an object (members,
\* or the key of an object that follows) and prose outside, "!" for text that
\* is not JSON wherever it stands.
ResponseChars == {"{", "}", "a", "!"}

ResponseTexts == UNION {[1..n -> ResponseChars] : n \in 0..MaxResponse}

FirstIndex(S) == CHOOSE i \in S : \A j \in S : i <= j

LastIndex(S) == CHOOSE i \in S : \A j \in S : i >= j

\* generatedText.match(/\{[\s\S]*\}/): the leftmost match, as long as it can
\* be, that is from the first "{" to the last "}" after it.
MatchJson(text) ==
    LET opens  == {i \in 1..Len(text) : text[i] = "{"}
        closes == {j \in 1..Len(text) :
                     text[j] = "}" /\ opens # {} /\ j > FirstIndex(opens)}
    IN  IF opens = {} \/ closes = {}
        THEN None
        ELSE Some(SubSeq(text, FirstIndex(opens), LastIndex(closes)))

\* The braces open after the first i characters of s.
RECURSIVE Depth(_, _)
Depth(s, i) ==
    IF i = 0 THEN 0
    ELSE Depth(s, i - 1)
           + (IF s[i] = "{" THEN 1 ELSE IF s[i] = "}" THEN -1 ELSE 0)

JsonParsesAnyBraces(s) == Len(s) >= 2 /\ s[1] = "{" /\ s[Len(s)] = "}"

\* JSON.parse(jsonMatch[0]) does not throw: one object from the first
\* character to the last, each inner object after its key, nothing that is
\* not JSON.
JsonParses(s) ==
    /\ Len(s) >= 2 /\ s[1] = "{" /\ s[Len(s)] = "}"
    /\ Depth(s, Len(s)) = 0
    /\ \A i \in 1..Len(s) :
         /\ s[i] # "!"
         /\ i < Len(s) => Depth(s, i) >= 1
         /\ (i > 1 /\ s[i] = "{") => s[i - 1] = "a"

\* questionData: the members generate-question reads of the parsed object;
\* "none" and None for a member that is missing, "essay" and "extreme" for
\* strings that are no question_type and no difficulty_level.
QuestionDatas ==
    [question_text : {"none", "text"},
     correct_answer : {None, Some(StoredAnswer)},
     question_type : {"none", "mcq", "essay"},
     difficulty : {"none", "easy", "extreme"}]

NoQuestionData ==
    [question_text |-> "none", correct_answer |-> None,
     question_type |-> "none", difficulty |-> "none"]

\* The insert into questions is accepted: question_text, question_type and
\* correct_answer are NOT NULL, question_type and difficulty are enums, and
\* difficulty has a default.
SaveAccepted(data) ==
    /\ data.question_text # "none"
    /\ data.correct_answer # None
    /\ data.question_type \in QuestionTypes
    /\ data.difficulty \in Difficulties \cup {"none"}

\* The columns of the inserted row: difficulty DEFAULT 'medium'.
InsertedColumns(data) ==
    [difficulty |-> IF data.difficulty = "none" THEN "medium" ELSE data.difficulty,
     question_type |-> data.question_type,
     correct_answer |-> data.correct_answer[1]]

\* The question of the response body: the members of questionData as they
\* are, under the id of the saved row or a random one.
ReturnedQuestion(data, id) ==
    [id |-> id, question_text |-> data.question_text,
     question_type |-> data.question_type, difficulty |-> data.difficulty,
     correct_answer |-> data.correct_answer]

\* The collaborator answered with a text, whose object (if it parses and is
\* not empty) holds the members data.
InitGenerate ==
    /\ MainInit
    /\ profile = TRUE
    /\ \E text \in ResponseTexts :
         \E data \in (IF /\ MatchJson(text) # None
                         /\ JsonParses(MatchJson(text)[1])
                         /\ \E i \in 1..Len(text) : text[i] = "a"
                      THEN QuestionDatas ELSE {NoQuestionData}) :
           probe = Some([fn |-> "generate", difficulty |-> "hard", text |-> text,
                         data |-> data, done |-> FALSE, jsonMatch |-> None,
                         status |-> "", returned |-> None])

\* generate-question from the collaborator's text on: the match, the parse,
\* the insert (its error only logged) and the response.
ProbeGenerate ==
    /\ probe # None
    /\ probe[1].fn = "generate"
    /\ ~probe[1].done
    /\ LET p == probe[1]
           jsonMatch == MatchJson(p.text)
           parsed == jsonMatch # None /\ JsonParses(jsonMatch[1])
           saved == parsed /\ SaveAccepted(p.data)
           row == GeneratedRow(p.difficulty, InsertedColumns(p.data))
       IN  /\ questions' = IF saved THEN questions \cup {row} ELSE questions
           /\ probe' = Some([p EXCEPT
                 !.done = TRUE,
                 !.jsonMatch = jsonMatch,
                 !.status = IF parsed THEN "200" ELSE "500",
                 !.returned = IF parsed
                              THEN Some(ReturnedQuestion(p.data,
                                          IF saved THEN row.id ELSE RandomId))
                              ELSE None])
    /\ UNCHANGED <<dbSession, answers, clientVars, lastLoad, countVars, creatorVars, adapted>>

SpecGenerate == InitGenerate /\ [][ProbeGenerate]_vars

GenerateProbed == probe # None /\ probe[1].fn = "generate" /\ probe[1].done

\* A JSON object, by reduction: members side by side are members, an object
\* after its key is a member, and what is left is "{}" or "{a}".
Reductions == << <<"a", "a">>, <<"a", "{", "}">>, <<"a", "{", "a", "}">> >>

RECURSIVE Reduced(_)
Reduced(s) ==
    LET hits == {h \in (1..Len(s)) \X (1..Len(Reductions)) :
                   /\ h[1] + Len(Reductions[h[2]]) - 1 <= Len(s)
                   /\ SubSeq(s, h[1], h[1] + Len(Reductions[h[2]]) - 1)
                        = Reductions[h[2]]}
    IN  IF hits = {} THEN s
        ELSE LET h == CHOOSE x \in hits : TRUE
             IN  Reduced(SubSeq(s, 1, h[1] - 1) \o <<"a">>
                         \o SubSeq(s, h[1] + Len(Reductions[h[2]]), Len(s)))

IsJsonObject(s) == Reduced(s) \in { <<"{", "}">>, <<"{", "a", "}">> }

\* No part of the text is a JSON object.
NoParsableObject(text) ==
    \A i, j \in 1..Len(text) : i < j => ~IsJsonObject(SubSeq(text, i, j))

\* C11: when the collaborator's response holds no parsable JSON object (no
\* text, no braces, or braces around what is not JSON), generate-question
\* answers with an error and has inserted no question.
C11_NoJsonNoQuestion ==
    (GenerateProbed /\ NoParsableObject(probe[1].text))
        => /\ probe[1].status = "500"
           /\ probe[1].returned = None
           /\ questions = SeedQuestions

\* C11, reached: the response "{!}", braces around what is not JSON, was
\* answered with an error and nothing was inserted.
C11_Witness ==
    /\ GenerateProbed
    /\ probe[1].text = <<"{", "!", "}">>
    /\ probe[1].status = "500"
    /\ questions = SeedQuestions

\* The members generate-question expects are there and of the expected kind.
WellFormed(data) ==
    /\ data.question_text # "none"
    /\ data.correct_answer # None
    /\ data.question_type \in QuestionTypes
    /\ data.difficulty \in Difficulties

\* C12: when the response parses as JSON and the object does not hold the
\* expected members, generate-question answers with an error, has inserted no
\* question and returns none.
C12_MalformedQuestionRejected ==
    (GenerateProbed
        /\ probe[1].jsonMatch # None /\ IsJsonObject(probe[1].jsonMatch[1])
        /\ ~WellFormed(probe[1].data))
        => /\ probe[1].status = "500"
           /\ probe[1].returned = None
           /\ questions = SeedQuestions

\* The first balanced object of the text: from the first "{" to the first
\* character after which as many "}" as "{" have been read.
Occurrences(text, c, from, to) == Cardinality({k \in from..to : text[k] = c})

Balanced(text, i, j) ==
    /\ text[i] = "{"
    /\ Occurrences(text, "{", i, j) = Occurrences(text, "}", i, j)

FirstBalancedObject(text) ==
    LET opens == {i \in 1..Len(text) : text[i] = "{"}
        ends  == {j \in 1..Len(text) :
                    opens # {} /\ j > FirstIndex(opens)
                               /\ Balanced(text, FirstIndex(opens), j)}
    IN  IF opens = {} \/ ends = {}
        THEN None
        ELSE Some(SubSeq(text, FirstIndex(opens), FirstIndex(ends)))

\* C13: of a response text that holds a balanced {...} object, the part
\* generate-question and evolve-quiz parse is the one from the first "{" to
\* its matching "}", whatever braces follow.
C13_FirstBalancedObjectExtracted ==
    (GenerateProbed /\ FirstBalancedObject(probe[1].text) # None)
        => probe[1].jsonMatch = FirstBalancedObject(probe[1].text)

(* ----------------- evolve-quiz: the collaborator's decision ------------- *)

\* The evolutionDecision as the prompt asks for it: action and reasoning next
\* to new_difficulty and focus_area; "none" for a member that is missing or
\* null.
EvolutionResponses ==
    [action : {"none", "continue", "increase_difficulty"},
     reasoning : {"none", "text"},
     new_difficulty : Difficulties \cup {"none", "extreme"},
     focus_area : {"none", "loops"}]

\* evolve-quiz on a stored session and a parsed decision.
InitEvolve ==
    /\ MainInit
    /\ profile = TRUE
    /\ \E difficulty \in Difficulties, decision \in EvolutionResponses :
         probe = Some([fn |-> "evolve",
                       row |-> [NewSessionRow EXCEPT !.current_difficulty = difficulty],
                       decision |-> decision, done |-> FALSE,
                       result |-> [NewSessionRow EXCEPT
                                      !.current_difficulty = difficulty]])

ProbeEvolve ==
    /\ probe # None
    /\ probe[1].fn = "evolve"
    /\ ~probe[1].done
    /\ probe' = Some([probe[1] EXCEPT
                        !.done = TRUE,
                        !.result = ApplyEvolution(probe[1].row, probe[1].decision)])
    /\ UNCHANGED mainVars

SpecEvolve == InitEvolve /\ [][ProbeEvolve]_vars

EvolveProbed == probe # None /\ probe[1].fn = "evolve" /\ probe[1].done

\* C14: a decision that lacks a required member (its action, its rationale)
\* is not applied: evolve-quiz leaves current_difficulty and focus_area of the
\* session as they were.
C14_IncompleteDecisionNotApplied ==
    (EvolveProbed
        /\ (probe[1].decision.action = "none" \/ probe[1].decision.reasoning = "none"))
        => /\ probe[1].result.current_difficulty = probe[1].row.current_difficulty
           /\ probe[1].result.focus_area = probe[1].row.focus_area

(* ------------------------------ TopicCreator --------------------------- *)

\* gen_random_uuid() for topics: an id no stored topic has.
CreatedTopicIds == <<"t3", "t4", "t5", "t6">>

NewTopicId == CreatedTopicIds[Cardinality(topics) - 1]

TopicsCreated == Cardinality(topics) - 2

\* A questions row of the topic topicId.
QuestionRow(id, topicId, qd) ==
    [id |-> id, topic_id |-> topicId, difficulty |-> qd.difficulty,
     question_type |-> qd.question_type, correct_answer |-> qd.correct_answer]

\* The question addQuestion appends: the form's defaults 'mcq' and 'medium'
\* and the text and answer typed.
FormQuestion ==
    [difficulty |-> "medium", question_type |-> "mcq", correct_answer |-> StoredAnswer]

\* What generateAIQuestions asks of generate-question in its round i:
\* difficulties[i] and questionTypes[i].
RequestedQuestion(i) ==
    [difficulty |-> <<"easy", "medium", "hard">>[i],
     question_type |-> <<"mcq", "true_false", "fill_blank">>[i],
     correct_answer |-> StoredAnswer]

\* onChange of the title input.
SetTopicTitle ==
    /\ creator.topicTitle = ""
    /\ creator' = [creator EXCEPT !.topicTitle = "Loops"]
    /\ UNCHANGED <<dbVars, clientVars, lastLoad, countVars, probe, profile, topics, adapted>>

\* addQuestion with the question text and the answer filled in.
AddQuestion ==
    /\ creator.questions < MaxFormQuestions
    /\ creator' = [creator EXCEPT !.questions = @ + 1]
    /\ UNCHANGED <<dbVars, clientVars, lastLoad, countVars, probe, profile, topics, adapted>>

\* createTopic of the form with questions: the profile, the topic, the
\* questions of the form, the toast; an error at any step is thrown to the
\* catch block and what was written before it stays.
CreateTopic ==
    /\ creator.topicTitle # ""
    /\ creator.questions > 0
    /\ TopicsCreated < MaxTopics
    /\ LET ran == [creator EXCEPT !.ran = @ \cup {"manual"}]
           rows == {QuestionRow(GreatestId + k, NewTopicId, FormQuestion) :
                      k \in 1..creator.questions}
       IN  \/ /\ ProfileMissing(profile)
              /\ toast' = "Profile not found"
              /\ creator' = ran
              /\ UNCHANGED <<topics, questions>>
           \/ /\ ~ProfileMissing(profile)
              /\ toast' = "insert failed"
              /\ creator' = ran
              /\ UNCHANGED <<topics, questions>>
           \/ /\ ~ProfileMissing(profile)
              /\ topics' = topics \cup {NewTopicId}
              /\ toast' = "insert failed"
              /\ creator' = ran
              /\ UNCHANGED questions
           \/ /\ ~ProfileMissing(profile)
              /\ topics' = topics \cup {NewTopicId}
              /\ questions' = questions \cup rows
              /\ toast' = "Topic created successfully!"
              /\ creator' = [ran EXCEPT !.topicTitle = "", !.questions = 0]
    /\ UNCHANGED <<dbSession, answers, phase, session, currentQuestion, showFeedback,
                   pc, submission, lastLoad, countVars, probe, profile, adapted>>

\* createTopic of the form without questions: the profile, the topic, then
\* generateAIQuestions, whose requests each give a question or fail (the
\* failure is logged), then the toast.  A request that succeeds stores the
\* question it was asked for.
CreateTopicAI ==
    /\ creator.topicTitle # ""
    /\ TopicsCreated < MaxTopics
    /\ LET ran == [creator EXCEPT !.ran = @ \cup {"ai"}]
       IN  \/ /\ ProfileMissing(profile)
              /\ toast' = "Profile not found"
              /\ creator' = ran
              /\ UNCHANGED <<topics, questions>>
           \/ /\ ~ProfileMissing(profile)
              /\ toast' = "insert failed"
              /\ creator' = ran
              /\ UNCHANGED <<topics, questions>>
           \/ /\ ~ProfileMissing(profile)
              /\ \E succeeded \in SUBSET (1..InitialQuestions) :
                   /\ questions' = questions \cup
                        {QuestionRow(GreatestId + i, NewTopicId,
                                     RequestedQuestion(i)) : i \in succeeded}
                   /\ creator' = [ran EXCEPT
                        !.topicTitle = "",
                        !.requests = @ + InitialQuestions,
                        !.failed = InitialQuestions - Cardinality(succeeded),
                        !.topic = Some(NewTopicId)]
              /\ topics' = topics \cup {NewTopicId}
              /\ toast' = "Topic created with AI-generated questions!"
    /\ UNCHANGED <<dbSession, answers, phase, session, currentQuestion, showFeedback,
                   pc, submission, lastLoad, countVars, probe, profile, adapted>>

\* The operations that start from the profile of the signed-in user:
\* initializeQuiz and both createTopic.  TopicCreator writes rows of the
\* topics it creates only, which no quiz on TopicId reads.
NextCreate ==
    \/ InitializeQuizAborts
    \/ InitializeQuiz
    \/ SetTopicTitle
    \/ AddQuestion
    \/ CreateTopic
    \/ CreateTopicAI

SpecCreate == Init /\ [][NextCreate]_vars

\* C15: when no profile exists for the signed-in user, initializeQuiz and both
\* createTopic abort: the user is shown the error, and no quiz session, no
\* topic and no question is written and no generation request is sent.
C15_NoProfileNoWrites ==
    ~profile
        => /\ dbSession = None /\ session = None
           /\ topics = {TopicId, OtherTopicId}
           /\ questions = SeedQuestions
           /\ generated = 0 /\ creator.requests = 0
           /\ (phase = "ready" \/ creator.ran # {}) => toast = "Profile not found"

\* C15, reached: without a profile, initializeQuiz and both createTopic have
\* run.
C15_Witness ==
    /\ ~profile
    /\ phase = "ready"
    /\ creator.ran = {"manual", "ai"}
    /\ toast = "Profile not found"

\* C18: the AI createTopic reports a failed generate-question request and
\* does not report success for a topic that received no generated question.
C18_GenerationFailuresReported ==
    /\ ("ai" \in creator.ran /\ creator.failed > 0)
          => toast # "Topic created with AI-generated questions!"
    /\ (toast = "Topic created with AI-generated questions!")
          => \E q \in questions : q.topic_id = creator.topic[1]

(* ------------------------- failures during a quiz ---------------------- *)

\* C16: a failed read or write of the store during a quiz (the question
\* fetch, the answer insert, the counter update, the difficulty update, the
\* update of endQuiz) is shown to the user as an error; a failed answer
\* insert does not pass in silence.  The feedback call, which may fail in
\* silence, is left out.
C16_FailuresAreSurfaced ==
    [][(faults' > faults /\ pc # "grading") => toast' # ""]_vars

\* C17: when the generation request of loadNextQuestion fails or gives no
\* question, the user sees the error and no question is on the question card.
C17_NoQuestionAfterFailedGeneration ==
    (phase = "ready" /\ lastLoad # None
        /\ lastLoad[1].generation /\ lastLoad[1].presented = None)
        => /\ toast = "Failed to load question"
           /\ ~QuestionCard

\* The feedback call of the submitAnswer of sub has failed.
FeedbackFailed(sub) == sub.requested /\ sub.feedback = "" /\ pc # "grading"

\* C19: feedback is best effort.  grade-answer gives a feedback text or an
\* error, never an empty feedback; when it fails, submitAnswer records the
\* answer with the correctness of the comparison and an empty feedback,
\* updates the counters and runs the adaptation step.  The record and the
\* counters are stated for the runs whose only failure is the feedback call.
C19_FeedbackIsBestEffort ==
    (submission # None /\ FeedbackFailed(submission[1]))
        => LET sub == submission[1] IN
           /\ faults >= 1
           /\ (faults = 1 /\ pc \in {"update", "adapt", "idle"}
                  /\ InsertAccepted(AnswerRow(sub)))
                => \E row \in AnswerRows :
                     /\ row.question_id = sub.question.id
                     /\ row.user_answer = sub.userAnswer
                     /\ row.ai_feedback = ""
                     /\ row.is_correct
                          = EqualNormalised(sub.userAnswer, sub.question.correct_answer)
           /\ pc \in {"adapt", "idle"}
                => /\ Evaluated(sub)
                   /\ sub.newDifficulty
                        = (IF sub.newTotalQuestions >= 5
                           THEN ReferenceRule(sub.session.current_difficulty,
                                              sub.newTotalQuestions,
                                              sub.newCorrectAnswers)
                           ELSE sub.session.current_difficulty)
                   /\ (faults = 1 /\ dbSession # None)
                        => /\ dbSession[1].total_questions = sub.newTotalQuestions
                           /\ dbSession[1].correct_answers = sub.newCorrectAnswers

\* C19, reached: the feedback call of the fifth answer failed; the answer is
\* recorded as correct with an empty feedback, and the adaptation step has
\* moved the session to hard.
C19_Witness ==
    /\ submission # None /\ FeedbackFailed(submission[1]) /\ Quiescent
    /\ submission[1].newTotalQuestions = 5
    /\ submission[1].newDifficulty = "hard"
    /\ dbSession[1].current_difficulty = "hard"
    /\ \E row \in AnswerRows :
         /\ row.question_id = submission[1].question.id
         /\ row.ai_feedback = "" /\ row.is_correct

\* One step leaves every answer record as it is, and adds a record only as the
\* insert of a submitAnswer, and then one.
AnswersOnlyAppended ==
    /\ \A row \in BagToSet(answers) :
         BagIn(row, answers') /\ answers'[row] >= answers[row]
    /\ answers' # answers
         => /\ pc = "insert" /\ pc' = "update"
            /\ BagCardinality(answers') = BagCardinality(answers) + 1

\* C20: answer records are append-only: no operation changes or removes a
\* record (the row-level policies allow a user to read and to insert, not to
\* update or delete), and a submitAnswer that records an answer adds exactly
\* one.
C20_AnswersAppendOnly ==
    /\ [](UserAnswersPolicies \subseteq {"SELECT", "INSERT"})
    /\ [][AnswersOnlyAppended]_vars

\* C20, reached: a question has been answered a second time, with another
\* text; both records are there.
C20_Witness ==
    /\ pc = "update"
    /\ \E a, b \in AnswerRows :
         a.question_id = b.question_id /\ a.user_answer # b.user_answer

(* --------------------- whose sessions and answers ---------------------- *)

\* Two signed-in users.
Users == {"u1", "u2"}

\* The row-level policies of quiz_sessions ("view", "create", "update their
\* own quiz sessions") and of user_answers: what a request with the key of a
\* signed-in user may do to a row of the session of owner.
PolicyAllows(table, command, requester, owner) ==
    /\ requester = owner
    /\ \/ table = "quiz_sessions" /\ command \in {"SELECT", "INSERT", "UPDATE"}
       \/ table = "user_answers" /\ command \in UserAnswersPolicies

\* A request of requester on a session of owner: through the client (the
\* policies apply), or to evolve-quiz with the id of the session in the body.
InitAccess ==
    /\ MainInit
    /\ profile = TRUE
    /\ \E requester \in Users, owner \in Users, difficulty \in Difficulties :
         LET row == [NewSessionRow EXCEPT !.current_difficulty = difficulty]
             request(via, table, command, decision) ==
                 Some([fn |-> "access", requester |-> requester, owner |-> owner,
                       via |-> via, table |-> table, command |-> command,
                       decision |-> decision, row |-> row, done |-> FALSE,
                       touched |-> FALSE, result |-> row])
         IN  \/ \E table \in {"quiz_sessions", "user_answers"},
                   command \in {"SELECT", "INSERT", "UPDATE", "DELETE"} :
                  probe = request("client", table, command,
                                  [new_difficulty |-> "none", focus_area |-> "none"])
             \/ \E decision \in EvolutionDecisions :
                  probe = request("evolve-quiz", "quiz_sessions", "UPDATE", decision)

\* The request is served.  evolve-quiz creates its client with the service
\* role key, which no policy restricts, and never looks at who asks: it reads
\* the session of the id it was sent and applies the decision to it.
ProbeAccess ==
    /\ probe # None
    /\ probe[1].fn = "access"
    /\ ~probe[1].done
    /\ LET p == probe[1]
       IN  probe' = Some([p EXCEPT
              !.done = TRUE,
              !.touched = IF p.via = "evolve-quiz" THEN TRUE
                          ELSE PolicyAllows(p.table, p.command, p.requester, p.owner),
              !.result = IF p.via = "evolve-quiz"
                         THEN ApplyEvolution(p.row, p.decision) ELSE p.row])
    /\ UNCHANGED mainVars

SpecAccess == InitAccess /\ [][ProbeAccess]_vars

AccessProbed == probe # None /\ probe[1].fn = "access" /\ probe[1].done

\* C21: a request made for one user neither reads nor changes a session or an
\* answer of another user, the requests to evolve-quiz included.
C21_OnlyOwnSessions ==
    (AccessProbed /\ probe[1].requester # probe[1].owner)
        => /\ ~probe[1].touched
           /\ probe[1].result = probe[1].row

(* ------------------------ one answer after another --------------------- *)

\* The steps of a submitAnswer follow one another in the order of the code.
StepsInOrder ==
    pc' # pc
        => <<pc, pc'>> \in { <<"idle", "grading">>, <<"idle", "insert">>,
                            <<"grading", "insert">>, <<"insert", "update">>,
                            <<"update", "adapt">>, <<"update", "idle">>,
                            <<"adapt", "idle">> }

\* Next Question loads once the submitAnswer has finished, at the difficulty
\* it arrived at.
NextLoadedAfterAdaptation ==
    (showFeedback /\ ~showFeedback' /\ phase' = "ready")
        => /\ pc = "idle"
           /\ submission # None
                => lastLoad'[1].requested = submission[1].newDifficulty

\* C22: within one submitAnswer: grade, write the answer, write the counters,
\* evaluate the difficulty, write it if it changed; the next question is
\* loaded only after these steps, at the resulting difficulty.
C22_StepsThenNextQuestion ==
    [][StepsInOrder /\ NextLoadedAfterAdaptation]_vars

\* C23: in a run without failures, the counter update of a submitAnswer
\* raises the stored total_questions by 1 and the stored correct_answers by 1
\* for a correct answer and by 0 otherwise, also after a difficulty change.
C23_CountersAdvanceByOne ==
    [][(pc = "update" /\ faults' = 0 /\ evolved' = 0)
          => /\ dbSession'[1].total_questions = dbSession[1].total_questions + 1
             /\ dbSession'[1].correct_answers
                  = dbSession[1].correct_answers
                      + (IF submission[1].isCorrect THEN 1 ELSE 0)]_vars

\* C24: after a submitAnswer that finished without a failure, the session the
\* client holds equals the stored row, also when the difficulty changed.
C24_ClientEqualsStored ==
    (Quiescent /\ session # None /\ dbSession # None /\ faults = 0 /\ evolved = 0)
        => session[1] = ClientSession(dbSession[1])

CountersInRange(s) ==
    0 <= s.correct_answers /\ s.correct_answers <= s.total_questions

\* C25: in the client's session and in the stored row 0 <= correct_answers
\* <= total_questions; the accuracy shown for the session and for the
\* dashboard totals is between 0 and 100, and 0 when nothing was answered.
C25_AccuracyInRange ==
    /\ session # None
          => /\ CountersInRange(session[1])
             /\ AccuracyPercent(session[1]) \in 0..100
             /\ session[1].total_questions = 0 => AccuracyPercent(session[1]) = 0
    /\ dbSession # None => CountersInRange(dbSession[1])
    /\ GetTotalStats(dbSession).accuracy \in 0..100
    /\ GetTotalStats(dbSession).totalQuestions = 0
          => GetTotalStats(dbSession).accuracy = 0

\* C25, reached: five answers, all correct: 100 percent on the quiz and on
\* the dashboard.
C25_Witness ==
    /\ session # None /\ session[1].total_questions = 5
    /\ AccuracyPercent(session[1]) = 100
    /\ GetTotalStats(dbSession).accuracy = 100

\* C26: once endQuiz has marked the session inactive, no answer is added to
\* it and its counters and its difficulty are not written by the client,
\* also when a submitAnswer was in flight when the user ended the quiz.
C26_NothingAfterEndQuiz ==
    [][(dbSession # None /\ ~dbSession[1].is_active /\ evolved' = evolved)
          => /\ answers' = answers
             /\ dbSession'[1].total_questions = dbSession[1].total_questions
             /\ dbSession'[1].correct_answers = dbSession[1].correct_answers
             /\ dbSession'[1].current_difficulty
                  = dbSession[1].current_difficulty]_vars

\* C27: the question generate-question returned is stored under the id it
\* was returned with, so the question on screen is a stored one.
C27_ReturnedQuestionIsStored ==
    /\ currentQuestion # None
          => \E q \in questions : q.id = currentQuestion[1].id
    /\ (lastLoad # None /\ lastLoad[1].generation /\ lastLoad[1].presented # None)
          => /\ lastLoad[1].saved # None
             /\ lastLoad[1].saved[1].id = lastLoad[1].presented[1].id

\* C28: the adaptation steps of two consecutive answers do not go up and
\* then down, nor down and then up.
C28_NoImmediateReversal ==
    adapted \notin { <<"up", "down">>, <<"down", "up">> }

\* C28, reached: the answer after the one that stepped the difficulty up has
\* been evaluated, and the difficulty stayed.
C28_Witness ==
    /\ adapted = <<"up", "same">>
    /\ Quiescent
    /\ submission # None /\ Evaluated(submission[1])

\* C29: after the createTopic of the form with questions, a stored topic has
\* its questions, and the questions of the form are cleared on success only.
C29_CreateTopicAllOrNothing ==
    /\ [](("ai" \notin creator.ran)
            => \A t \in topics \ {TopicId, OtherTopicId} :
                 \E q \in questions : q.topic_id = t)
    /\ [][creator'.questions < creator.questions
            => toast' = "Topic created successfully!"]_vars

====
